---------------------------- MODULE Spec2Model ----------------------------
(***************************************************************************)
(* A model of monitor.py: the metric samplers (psutil, typeperf, /proc),   *)
(* the backend selection of read_metrics, format_line, and the display     *)
(* loop of main (once, graph and live-line modes).                         *)
(*                                                                         *)
(* Python floats are modelled as exact rationals [n, d] in lowest terms;   *)
(* None is a value of its own.  Text files are sequences of lines, a line  *)
(* is a sequence of tokens: integer literals, decimal literals, or text.   *)
(***************************************************************************)
EXTENDS Integers, Sequences, FiniteSets, TLC

VARIABLES
    mode,       \* "once" | "graph" | "live"       (args.once / args.graph)
    samples,    \* args.samples
    pc,         \* position of main: "read", "draw", "exit", "stopped", "crashed"
    env,        \* what the host presented to the last read_metrics call
    cpu,        \* main's local cpu  (last result of read_metrics)
    mem,        \* main's local mem
    exc,        \* the exception that left main, "" when none
    cpu_hist,   \* graph mode history
    mem_hist,
    count,      \* graph mode sample counter
    reads,      \* number of read_metrics calls started
    frames,     \* number of frames completely drawn
    frame,      \* the locals of the last frame drawn (size, n, views, canvas, ...)
    shown,      \* the last format_line result put on the screen
    printed     \* the closing message printed, "" when none

vars == <<mode, samples, pc, env, cpu, mem, exc, cpu_hist, mem_hist, count,
          reads, frames, frame, shown, printed>>

-----------------------------------------------------------------------------
(* Values *)

None == [kind |-> "None"]

RECURSIVE GCD(_, _)
GCD(a, b) == IF b = 0 THEN a ELSE GCD(b, a % b)

Abs(i) == IF i < 0 THEN -i ELSE i

\* the float n/d (d # 0), kept in lowest terms with a positive denominator
Float(n, d) ==
    LET g == GCD(Abs(n), Abs(d))
        s == IF d < 0 THEN -1 ELSE 1
    IN  [kind |-> "float", n |-> (s * n) \div g, d |-> (s * d) \div g]

IsNone(v) == v = None

FloatLT(a, b) == a.n * b.d < b.n * a.d

\* Python's min(a, b) and max(a, b) on floats: the first argument unless the
\* second is strictly smaller (larger)
PyMin(a, b) == IF FloatLT(b, a) THEN b ELSE a
PyMax(a, b) == IF FloatLT(a, b) THEN b ELSE a

\* Python 3 round(): to the nearest integer, ties to the even one
Round(n, d) ==
    LET q == n \div d
        r == n - q * d
    IN  IF 2 * r < d THEN q
        ELSE IF 2 * r > d THEN q + 1
        ELSE IF q % 2 = 0 THEN q ELSE q + 1

\* int(x) of a non-negative float n/d: truncation
Trunc(n, d) == n \div d

-----------------------------------------------------------------------------
(* Tokens of the text the samplers parse *)

\* an integer literal ("400"), a decimal literal ("2.5") and any other text
Num(i)    == [kind |-> "int", n |-> i, d |-> 1]
Dec(n, d) == [kind |-> "dec", n |-> n, d |-> d]
Txt       == [kind |-> "txt"]

\* int(t) succeeds on integer literals only, float(t) on both kinds of number
IntOk(t)   == t.kind = "int"
FloatOk(t) == t.kind \in {"int", "dec"}

Ok(c, m)   == [tag |-> "ok", cpu |-> c, mem |-> m]
Raise(e)   == [tag |-> "raise", exc |-> e]

-----------------------------------------------------------------------------
(* _read_windows_typeperf: tp = [found, stdout]; stdout is a sequence of   *)
(* lines, each the sequence of its CSV cells, a blank line being <<>>.     *)

NonBlank(lines) == SelectSeq(lines, LAMBDA ln : ln # <<>>)

_read_windows_typeperf(tp) ==
    IF ~tp.found THEN Ok(None, None)                    \* FileNotFoundError
    ELSE LET lines == NonBlank(tp.stdout)
         IN  IF Len(lines) >= 3
             THEN LET row == lines[Len(lines)]
                  IN  IF Len(row) >= 3
                      THEN IF FloatOk(row[2]) /\ FloatOk(row[3])
                           THEN Ok(Float(row[2].n, row[2].d), Float(row[3].n, row[3].d))
                           ELSE Ok(None, None)          \* ValueError
                      ELSE Ok(None, None)
             ELSE Ok(None, None)

-----------------------------------------------------------------------------
(* _read_linux_proc *)

\* index of the first line of /proc/stat that starts with "cpu ", 0 if none
RECURSIVE FirstCpuLine(_, _)
FirstCpuLine(stat, i) ==
    IF i > Len(stat) THEN 0
    ELSE IF stat[i].key = "cpu" THEN i
    ELSE FirstCpuLine(stat, i + 1)

RECURSIVE SumNums(_)
SumNums(fields) ==
    IF fields = <<>> THEN 0 ELSE Head(fields).n + SumNums(Tail(fields))

\* read_cpu_times: [tag |-> "ok", idle, total], [tag |-> "None"] or a raise
read_cpu_times(stat) ==
    LET i == FirstCpuLine(stat, 1)
    IN  IF i = 0 THEN [tag |-> "None"]
        ELSE LET nums == stat[i].fields
             IN  IF \E k \in 1..Len(nums) : ~IntOk(nums[k])
                 THEN Raise("ValueError")               \* int(...) of line 61
                 ELSE IF Len(nums) < 4
                 THEN Raise("IndexError")               \* nums[3] of line 63
                 ELSE [tag   |-> "ok",
                       idle  |-> nums[4].n + (IF Len(nums) > 4 THEN nums[5].n ELSE 0),
                       total |-> SumNums(nums)]

\* the cpu percentage from two snapshots (lines 71-76)
CpuFromSnapshots(idle1, total1, idle2, total2) ==
    LET idle_delta  == idle2 - idle1
        total_delta == total2 - total1
    IN  IF total_delta > 0
        THEN Float(100 * (total_delta - idle_delta), total_delta)
        ELSE None

\* the dict built from /proc/meminfo: the value of the last line with that key
RECURSIVE MemInfoGet(_, _, _)
MemInfoGet(meminfo, name, i) ==
    IF i = 0 THEN <<Num(0), Txt>>                       \* the default "0 kB"
    ELSE IF meminfo[i].k = name THEN meminfo[i].v
    ELSE MemInfoGet(meminfo, name, i - 1)

\* kb(name): a float, or the exception it raises
kb(meminfo, name) ==
    LET val == MemInfoGet(meminfo, name, Len(meminfo))
    IN  IF val = <<>> THEN Raise("IndexError")
        ELSE IF ~FloatOk(val[1]) THEN Raise("ValueError")
        ELSE [tag |-> "ok", n |-> val[1].n, d |-> val[1].d]

\* the memory percentage (lines 79-94); every exception leaves mem = None
MemFromMeminfo(meminfo) ==
    IF \E i \in 1..Len(meminfo) : ~meminfo[i].colon THEN None   \* k, v = ... fails
    ELSE LET total == kb(meminfo, "MemTotal")
             avail == kb(meminfo, "MemAvailable")
         IN  IF total.tag # "ok" \/ avail.tag # "ok" THEN None
             ELSE IF total.n > 0
             THEN \* 100.0 * (1.0 - avail / total)
                  Float(100 * (total.n * avail.d - avail.n * total.d),
                        total.n * avail.d)
             ELSE None

_read_linux_proc(stat1, stat2, meminfo) ==
    LET s1 == read_cpu_times(stat1)
        s2 == read_cpu_times(stat2)
    IN  IF s1.tag = "raise" THEN s1
        ELSE IF s1.tag = "None" THEN Raise("TypeError") \* idle1, total1 = None
        ELSE IF s2.tag = "raise" THEN s2
        ELSE IF s2.tag = "None" THEN Raise("TypeError") \* idle2, total2 = None
        ELSE Ok(CpuFromSnapshots(s1.idle, s1.total, s2.idle, s2.total),
                MemFromMeminfo(meminfo))

-----------------------------------------------------------------------------
(* _read_with_psutil: ps = [importable, cpu, mem] *)

_read_with_psutil(ps) ==
    IF ~ps.importable THEN Ok(None, None) ELSE Ok(ps.cpu, ps.mem)

-----------------------------------------------------------------------------
(* read_metrics: e = [psutil, platform, typeperf, proc_stat_exists,        *)
(*                    stat1, stat2, meminfo]                               *)

read_metrics(e) ==
    LET p == _read_with_psutil(e.psutil)
    IN  IF ~IsNone(p.cpu) /\ ~IsNone(p.mem) THEN p
        ELSE IF e.platform = "Windows" THEN _read_windows_typeperf(e.typeperf)
        ELSE IF e.proc_stat_exists
        THEN _read_linux_proc(e.stat1, e.stat2, e.meminfo)
        ELSE Ok(None, None)

-----------------------------------------------------------------------------
(* format_line *)

RECURSIVE PadLeft(_, _)
PadLeft(str, w) == IF Len(str) >= w THEN str ELSE PadLeft(" " \o str, w)

\* f"{v:5.1f}": one decimal, ties to even, right-aligned in 5 columns
Fixed1(v) ==
    LET t == Round(Abs(v.n) * 10, v.d)
    IN  PadLeft((IF v.n < 0 THEN "-" ELSE "")
                    \o ToString(t \div 10) \o "." \o ToString(t % 10), 5)

RECURSIVE Join(_, _)
Join(parts, sep) ==
    IF Len(parts) = 0 THEN ""
    ELSE IF Len(parts) = 1 THEN parts[1]
    ELSE parts[1] \o sep \o Join(Tail(parts), sep)

\* the list parts of format_line
FormatParts(c, m) ==
    << IF ~IsNone(c) THEN "CPU: " \o Fixed1(c) \o "%" ELSE "CPU: N/A",
       IF ~IsNone(m) THEN "Memory: " \o Fixed1(m) \o "%" ELSE "Memory: N/A" >>

format_line(c, m) == Join(FormatParts(c, m), " | ")

\* what a caller of format_line puts on the screen
Shown(c, m) == [parts |-> FormatParts(c, m), text |-> format_line(c, m)]

NothingShown == [parts |-> <<>>, text |-> ""]

-----------------------------------------------------------------------------
(* The graph frame (lines 168-217) *)

IMax(a, b) == IF b > a THEN b ELSE a
IMin(a, b) == IF b < a THEN b ELSE a

\* shutil.get_terminal_size((80, 24)): the fallback when no terminal answers
NoTerminal == [columns |-> 0, lines |-> 0]

get_terminal_size(term) ==
    IF term = NoTerminal THEN [columns |-> 80, lines |-> 24] ELSE term

\* Clamp without its lower limit
Clamp_NoLower(v) ==
    IF IsNone(v) THEN Float(0, 1) ELSE PyMin(Float(100, 1), v)

\* the value appended to a history (lines 168-169)
Clamp(v) ==
    IF IsNone(v) THEN Float(0, 1)
    ELSE PyMax(Float(0, 1), PyMin(Float(100, 1), v))

Width(size)  == IMax(30, size.columns - 8)
Height(size) == IMax(10, IMin(24, size.lines - 5))

\* the n oldest entries, hist[:n], instead of the n latest
LastN_Oldest(hist, n) ==
    IF n <= 0 \/ n >= Len(hist) THEN hist ELSE SubSeq(hist, 1, n)

\* hist[-n:]
LastN(hist, n) ==
    IF n <= 0 \/ n >= Len(hist) THEN hist
    ELSE SubSeq(hist, Len(hist) - n + 1, Len(hist))

\* row_for without the inversion: row 0 for the value 0
row_for_NoInvert(value, height) == Round(value.n * (height - 1), value.d * 100)

row_for(value, height) ==
    LET r == Round(value.n * (height - 1), value.d * 100)
    IN  (height - 1) - r

\* the loop without its overlap branch: both markers are always written
RECURSIVE Writes_NoOverlap(_, _, _, _)
Writes_NoOverlap(cpu_view, mem_view, height, x) ==
    IF x >= Len(cpu_view) THEN <<>>
    ELSE << [r |-> row_for(cpu_view[x + 1], height), x |-> x, ch |-> "#"],
            [r |-> row_for(mem_view[x + 1], height), x |-> x, ch |-> "*"] >>
         \o Writes_NoOverlap(cpu_view, mem_view, height, x + 1)

\* the assignments canvas[r][x] = ch of the loop of lines 189-196, in order
RECURSIVE Writes(_, _, _, _)
Writes(cpu_view, mem_view, height, x) ==
    IF x >= Len(cpu_view) THEN <<>>
    ELSE LET rc == row_for(cpu_view[x + 1], height)
             rm == row_for(mem_view[x + 1], height)
         IN  (IF rc = rm
              THEN << [r |-> rc, x |-> x, ch |-> "@"] >>
              ELSE << [r |-> rc, x |-> x, ch |-> "#"],
                      [r |-> rm, x |-> x, ch |-> "*"] >>)
             \o Writes(cpu_view, mem_view, height, x + 1)

EmptyCanvas(height, n) ==
    [err  |-> "",
     grid |-> [r \in 0..(height - 1) |-> [x \in 0..(n - 1) |-> " "]]]

\* a Python list index: negative indices count from the end
InRange(i, len) == -len <= i /\ i < len
Index(i, len)   == IF i < 0 THEN i + len ELSE i

\* the canvas after the writes; err = "IndexError" once a write misses the lists
RECURSIVE ApplyWrites(_, _, _, _)
ApplyWrites(canvas, ws, height, n) ==
    IF ws = <<>> \/ canvas.err # "" THEN canvas
    ELSE LET w == Head(ws)
         IN  IF InRange(w.r, height) /\ InRange(w.x, n)
             THEN ApplyWrites(
                     [canvas EXCEPT !.grid[Index(w.r, height)][Index(w.x, n)] = w.ch],
                     Tail(ws), height, n)
             ELSE [canvas EXCEPT !.err = "IndexError"]

\* the set ticks of line 206
Ticks(height) ==
    {0, Trunc(height * 25, 100), Trunc(height * 50, 100),
        Trunc(height * 75, 100), height - 1}

\* the label of a row (lines 208-212)
Label(row, height) ==
    IF row \in Ticks(height)
    THEN PadLeft(ToString(Round(100 * ((height - 1) - row), height - 1)), 3)
    ELSE "   "

RECURSIVE Repeat(_, _)
Repeat(ch, k) == IF k <= 0 THEN "" ELSE ch \o Repeat(ch, k - 1)

RECURSIVE Cells(_, _, _)
Cells(cells, x, n) == IF x >= n THEN "" ELSE cells[x] \o Cells(cells, x + 1, n)

\* the locals of one pass of lines 172-217 over the histories
Frame(ch, mh, term) ==
    LET size     == get_terminal_size(term)
        width    == Width(size)
        height   == Height(size)
        n        == IMin(Len(ch), width)
        cpu_view == LastN(ch, n)
        mem_view == LastN(mh, n)
        writes   == Writes(cpu_view, mem_view, height, 0)
        canvas   == ApplyWrites(EmptyCanvas(height, n), writes, height, n)
    IN  [size     |-> size,
         width    |-> width,
         height   |-> height,
         n        |-> n,
         cpu_view |-> cpu_view,
         mem_view |-> mem_view,
         writes   |-> writes,
         canvas   |-> canvas,
         legend   |-> Shown(cpu_view[Len(cpu_view)], mem_view[Len(mem_view)]),
         labels   |-> [row \in 0..(height - 1) |-> Label(row, height)],
         rows     |-> [row \in 0..(height - 1) |->
                          Label(row, height) \o "|" \o Cells(canvas.grid[row], 0, n)],
         baseline |-> "   +" \o Repeat("-", n),
         caption  |-> n]

NoFrame == [n |-> 0]

-----------------------------------------------------------------------------
(* The hosts the samplers are run on *)

MaxCount == 3       \* samples taken in a run of the display loop
MaxRun   == 33      \* samples taken in a run on a narrow terminal
Grid     == 2       \* history values k / Grid, k in 0 .. 100 * Grid

Nums(ints) == [i \in 1..Len(ints) |-> Num(ints[i])]

CpuLine(fields) == [key |-> "cpu", fields |-> fields]
Cpu0Line        == [key |-> "cpu0", fields |-> Nums(<<400, 0, 500, 90, 10>>)]

StatNoCpuLine  == << Cpu0Line >>
StatBadNumber  == << CpuLine(<<Num(400), Txt, Num(500), Num(90), Num(10)>>), Cpu0Line >>
StatDecimal    == << CpuLine(<<Num(400), Num(0), Num(500), Dec(905, 10)>>) >>
StatThree      == << CpuLine(Nums(<<400, 0, 500>>)) >>
Stat100of1000  == << CpuLine(Nums(<<400, 0, 500, 90, 10>>)), Cpu0Line >>
Stat110of1100  == << CpuLine(Nums(<<450, 0, 540, 100, 10>>)), Cpu0Line >>
Stat95of1100   == << CpuLine(Nums(<<500, 0, 505, 90, 5>>)) >>
Stat300of1100  == << CpuLine(Nums(<<300, 0, 500, 250, 50>>)) >>
Stat100of1050  == << Cpu0Line, CpuLine(Nums(<<450, 0, 500, 100>>)) >>

StatFiles == {StatNoCpuLine, StatBadNumber, StatDecimal, StatThree, Stat100of1000,
              Stat110of1100, Stat95of1100, Stat300of1100, Stat100of1050}

MemLine(k, v) == [colon |-> TRUE, k |-> k, v |-> v]
NoColonLine   == [colon |-> FALSE, k |-> "", v |-> <<>>]

Mem400of1000  == << MemLine("MemTotal", <<Num(1000), Txt>>),
                    MemLine("MemFree", <<Num(100), Txt>>),
                    MemLine("MemAvailable", <<Num(400), Txt>>) >>
Mem2000of1000 == << MemLine("MemTotal", <<Num(1000), Txt>>),
                    MemLine("MemAvailable", <<Num(2000), Txt>>) >>
MemNoColon    == << MemLine("MemTotal", <<Num(1000), Txt>>), NoColonLine,
                    MemLine("MemAvailable", <<Num(400), Txt>>) >>
MemBadNumber  == << MemLine("MemTotal", <<Txt, Txt>>),
                    MemLine("MemAvailable", <<Num(400), Txt>>) >>
MemEmptyValue == << MemLine("MemTotal", <<Num(1000), Txt>>),
                    MemLine("MemAvailable", <<>>) >>
MemNoTotal    == << MemLine("MemAvailable", <<Num(400), Txt>>) >>

MemFiles == {Mem400of1000, Mem2000of1000, MemNoColon, MemBadNumber, MemEmptyValue,
             MemNoTotal}

Header == << <<Txt>>, <<>>, <<Txt, Txt, Txt>> >>

TypeperfMissing  == [found |-> FALSE, stdout |-> <<>>]
TypeperfGood     == [found |-> TRUE,
                     stdout |-> Header \o << <<Txt, Dec(2, 1), Dec(40, 1)>>, <<>> >>]
TypeperfShort    == [found |-> TRUE, stdout |-> << <<Txt>>, <<>>, <<Txt, Num(2), Num(40)>> >>]
TypeperfTwoCols  == [found |-> TRUE, stdout |-> Header \o << <<Txt, Num(2)>> >>]
TypeperfBadValue == [found |-> TRUE, stdout |-> Header \o << <<Txt, Num(2), Txt>> >>]

TypeperfRuns == {TypeperfMissing, TypeperfGood, TypeperfShort, TypeperfTwoCols,
                 TypeperfBadValue}

PsutilMissing     == [importable |-> FALSE, cpu |-> None, mem |-> None]
Psutil(c, m)      == [importable |-> TRUE, cpu |-> c, mem |-> m]

PsutilMisses == {PsutilMissing, Psutil(Float(55, 1), None), Psutil(None, Float(60, 1))}
PsutilFull   == {Psutil(Float(55, 1), Float(60, 1)),
                 Psutil(Float(1234, 100), Float(5678, 100)),
                 Psutil(Float(5, 100), Float(9995, 100))}

Host(ps, platform, tp, exists, s1, s2, mi) ==
    [psutil |-> ps, platform |-> platform, typeperf |-> tp,
     proc_stat_exists |-> exists, stat1 |-> s1, stat2 |-> s2, meminfo |-> mi]

PsutilHost(ps)       == Host(ps, "Other", TypeperfMissing, FALSE, <<>>, <<>>, <<>>)
WindowsHost(ps, tp)  == Host(ps, "Windows", tp, FALSE, <<>>, <<>>, <<>>)
LinuxHost(ps, s1, s2, mi) == Host(ps, "Linux", TypeperfMissing, TRUE, s1, s2, mi)

NoHost == PsutilHost(PsutilMissing)

\* every host: the library answers in full, or it does not and the platform decides
Hosts ==
    {PsutilHost(ps) : ps \in PsutilFull \cup PsutilMisses}
    \cup {WindowsHost(ps, tp) : ps \in PsutilMisses, tp \in TypeperfRuns}
    \cup {LinuxHost(ps, s1, s2, mi) :
             ps \in PsutilMisses, s1 \in StatFiles, s2 \in StatFiles, mi \in MemFiles}

\* the hosts the display loop is run on: one per path through the samplers
LoopHosts ==
    { PsutilHost(Psutil(Float(55, 1), Float(60, 1))),
      PsutilHost(PsutilMissing),
      WindowsHost(PsutilMissing, TypeperfGood),
      LinuxHost(Psutil(Float(55, 1), None), Stat100of1000, Stat110of1100, Mem400of1000),
      LinuxHost(PsutilMissing, Stat100of1000, Stat95of1100, Mem2000of1000),
      LinuxHost(Psutil(None, Float(60, 1)), Stat100of1000, Stat300of1100, MemNoColon),
      LinuxHost(PsutilMissing, Stat110of1100, Stat100of1000, Mem400of1000),
      LinuxHost(PsutilMissing, StatNoCpuLine, Stat100of1000, Mem400of1000) }

\* hosts whose library reports every value k / Grid of [0, 100], with a memory
\* value that is the same or the mirrored one
GridHosts ==
    UNION {{PsutilHost(Psutil(Float(k, Grid), Float(j, Grid))) :
               j \in {k, 100 * Grid - k}} : k \in 0..(100 * Grid)}

\* a host whose load depends on the time of the sample
RampHosts(k) ==
    {PsutilHost(Psutil(Float((7 * k) % 101, 1), Float(100 - ((3 * k) % 101), 1)))}

Terminal(columns, lines) == [columns |-> columns, lines |-> lines]

Terminals       == {NoTerminal, Terminal(20, 15), Terminal(120, 50), Terminal(1, 18)}
HeightTerminals == {Terminal(80, l) : l \in 14..30}
NarrowTerminals == {Terminal(20, 15), Terminal(30, 15), Terminal(39, 15), Terminal(40, 15)}

-----------------------------------------------------------------------------
(* main *)

Unset == [kind |-> "unset"]

InitWith(modes, limits) ==
    /\ mode \in modes
    /\ samples \in (IF mode = "graph" THEN limits ELSE {0})
    /\ pc = "read"
    /\ env = NoHost
    /\ cpu = Unset
    /\ mem = Unset
    /\ exc = ""
    /\ cpu_hist = <<>>
    /\ mem_hist = <<>>
    /\ count = 0
    /\ reads = 0
    /\ frames = 0
    /\ frame = NoFrame
    /\ shown = NothingShown
    /\ printed = IF mode = "live" THEN <<"Press Ctrl+C to stop.">> ELSE <<>>

\* cpu, mem = read_metrics(interval) on host e, then to position next
Read(e, next) ==
    LET r == read_metrics(e)
    IN  /\ env' = e
        /\ reads' = reads + 1
        /\ IF r.tag = "raise"
           THEN /\ pc' = "crashed"
                /\ exc' = r.exc
                /\ UNCHANGED <<cpu, mem>>
           ELSE /\ pc' = next
                /\ cpu' = r.cpu
                /\ mem' = r.mem
                /\ UNCHANGED exc

\* lines 155-158
Once(hosts) ==
    /\ mode = "once"
    /\ pc = "read"
    /\ \E e \in hosts :
          /\ Read(e, "exit")
          /\ shown' = IF pc' = "exit" THEN Shown(cpu', mem') ELSE shown
    /\ UNCHANGED <<mode, samples, cpu_hist, mem_hist, count, frames, frame, printed>>

\* line 166
GraphSample(hosts, cap) ==
    /\ mode = "graph"
    /\ pc = "read"
    /\ count < cap
    /\ \E e \in hosts : Read(e, "draw")
    /\ UNCHANGED <<mode, samples, cpu_hist, mem_hist, count, frames, frame, shown,
                   printed>>

\* lines 168-223
GraphFrame(terminals) ==
    /\ mode = "graph"
    /\ pc = "draw"
    /\ cpu_hist' = Append(cpu_hist, Clamp(cpu))
    /\ mem_hist' = Append(mem_hist, Clamp(mem))
    /\ count' = count + 1
    /\ \E term \in terminals :
          /\ frame' = Frame(cpu_hist', mem_hist', term)
          /\ IF frame'.canvas.err # ""
             THEN /\ pc' = "crashed"
                  /\ exc' = frame'.canvas.err
                  /\ UNCHANGED <<frames, shown, printed>>
             ELSE /\ frames' = frames + 1
                  /\ shown' = frame'.legend
                  /\ UNCHANGED exc
                  /\ IF samples > 0 /\ count' >= samples
                     THEN /\ pc' = "exit"
                          /\ printed' = Append(printed, "Done.")
                     ELSE /\ pc' = "read"
                          /\ UNCHANGED printed
    /\ UNCHANGED <<mode, samples, env, cpu, mem, reads>>

\* lines 228-230
Live(hosts, cap) ==
    /\ mode = "live"
    /\ pc = "read"
    /\ reads < cap
    /\ \E e \in hosts :
          /\ Read(e, "read")
          /\ shown' = IF pc' = "read" THEN Shown(cpu', mem') ELSE shown
    /\ UNCHANGED <<mode, samples, cpu_hist, mem_hist, count, frames, frame, printed>>

\* lines 231-232: Ctrl+C anywhere inside the try
Interrupt ==
    /\ pc \in {"read", "draw"}
    /\ pc' = "stopped"
    /\ printed' = Append(printed, "Stopped.")
    /\ UNCHANGED <<mode, samples, env, cpu, mem, exc, cpu_hist, mem_hist, count,
                   reads, frames, frame, shown>>

Init == InitWith({"once", "graph", "live"}, 0..MaxCount)

Next ==
    \/ Once(LoopHosts)
    \/ GraphSample(LoopHosts, MaxCount)
    \/ GraphFrame(Terminals)
    \/ Live(LoopHosts, MaxCount)
    \/ Interrupt

Spec == Init /\ [][Next]_vars

\* one sample on every host
InitOnce == InitWith({"once"}, {0})
NextOnce == Once(Hosts)
SpecOnce == InitOnce /\ [][NextOnce]_vars

\* one frame of every height over every pair of values
InitFrame == InitWith({"graph"}, {1})
NextFrame ==
    \/ GraphSample(GridHosts, 1)
    \/ GraphFrame(HeightTerminals)
SpecFrame == InitFrame /\ [][NextFrame]_vars

\* a long run on terminals around the narrowest canvas
InitWindow == InitWith({"graph"}, {0})
NextWindow ==
    \/ GraphSample(RampHosts(count), MaxRun)
    \/ GraphFrame(NarrowTerminals)
SpecWindow == InitWindow /\ [][NextWindow]_vars

-----------------------------------------------------------------------------
(* Properties *)

\* read_metrics went past psutil and called _read_linux_proc on host e
LinuxSamplerRan(e) ==
    LET p == _read_with_psutil(e.psutil)
    IN  /\ IsNone(p.cpu) \/ IsNone(p.mem)
        /\ e.platform # "Windows"
        /\ e.proc_stat_exists

\* what the platform-native sampler of host e yields
NativeSampler(e) ==
    IF e.platform = "Windows" THEN _read_windows_typeperf(e.typeperf)
    ELSE _read_linux_proc(e.stat1, e.stat2, e.meminfo)

\* the once run has made its call of read_metrics
Called == mode = "once" /\ reads > 0

\* C1: read_metrics never returns a pair with exactly one value absent, and
\* with psutil yielding (55.0, None) and the platform sampler (None, 60.0) it
\* returns (None, None).
C1_PartialIsMiss ==
    (Called /\ pc = "exit") =>
        /\ IsNone(cpu) <=> IsNone(mem)
        /\ ( /\ _read_with_psutil(env.psutil) = Ok(Float(55, 1), None)
             /\ NativeSampler(env) = Ok(None, Float(60, 1)) )
           => (IsNone(cpu) /\ IsNone(mem))

\* C2: when _read_linux_proc runs, no error reaches the caller of
\* read_metrics: a pair is returned, a cpu parse failure leaves cpu absent and
\* the memory value is the one /proc/meminfo gives.
C2_ParseFailureLocal ==
    (Called /\ LinuxSamplerRan(env)) =>
        /\ pc = "exit"
        /\ exc = ""
        /\ mem = MemFromMeminfo(env.meminfo)
        /\ ( \/ read_cpu_times(env.stat1).tag # "ok"
             \/ read_cpu_times(env.stat2).tag # "ok" ) => IsNone(cpu)

\* C3: for two snapshots read by _read_linux_proc, cpu is absent when total
\* or idle went down, and a cpu number equals
\* 100 * (1 - (idle2 - idle1) / (total2 - total1)) and is not negative.
C3_MonotonicityGuard ==
    ( /\ Called /\ pc = "exit" /\ LinuxSamplerRan(env)
      /\ read_cpu_times(env.stat1).tag = "ok"
      /\ read_cpu_times(env.stat2).tag = "ok" ) =>
        LET s1 == read_cpu_times(env.stat1)
            s2 == read_cpu_times(env.stat2)
        IN  /\ (s2.total < s1.total \/ s2.idle < s1.idle) => IsNone(cpu)
            /\ ~IsNone(cpu) =>
                  /\ cpu.n * (s2.total - s1.total)
                        = cpu.d * 100 * ((s2.total - s1.total) - (s2.idle - s1.idle))
                  /\ cpu.n >= 0

InPercentRange(v) == v.kind = "float" /\ 0 <= v.n /\ v.n <= 100 * v.d

C4_Entries ==
    mode = "graph" =>
        /\ Len(cpu_hist) = count
        /\ Len(mem_hist) = count
        /\ \A i \in 1..count : InPercentRange(cpu_hist[i]) /\ InPercentRange(mem_hist[i])
        /\ pc \in {"read", "exit"} => count = reads
        /\ (count > 0 /\ frames = reads) =>
              /\ IsNone(cpu) => cpu_hist[count] = Float(0, 1)
              /\ IsNone(mem) => mem_hist[count] = Float(0, 1)

C4_AppendOnly ==
    /\ Len(cpu_hist') >= Len(cpu_hist)
    /\ Len(mem_hist') >= Len(mem_hist)
    /\ \A i \in 1..Len(cpu_hist) : cpu_hist'[i] = cpu_hist[i]
    /\ \A i \in 1..Len(mem_hist) : mem_hist'[i] = mem_hist[i]

\* C4: in graph mode every history entry lies in [0, 100], an absent metric is
\* stored as 0.0, both histories are as long as the number of samples taken,
\* and no step changes or removes an entry already stored.
C4_History == [](C4_Entries) /\ [][C4_AppendOnly]_vars

\* a frame whose last sample had no cpu, after an earlier sample above 100
C4_Witness ==
    /\ mode = "graph" /\ count >= 2 /\ frames = reads
    /\ IsNone(cpu) /\ cpu_hist[count] = Float(0, 1)
    /\ cpu_hist[1] = Float(100, 1) /\ mem_hist[1] = Float(0, 1)

\* the view of a frame is the n latest entries of the histories, in order
MostRecent(f) ==
    /\ Len(f.cpu_view) = f.n
    /\ Len(f.mem_view) = f.n
    /\ \A i \in 1..f.n :
          /\ f.cpu_view[i] = cpu_hist[Len(cpu_hist) - f.n + i]
          /\ f.mem_view[i] = mem_hist[Len(mem_hist) - f.n + i]

WindowWidth(columns) == IF columns - 8 > 30 THEN columns - 8 ELSE 30

\* C5 as stated: n never exceeds the terminal's columns,
\* n = min(history length, max(30, columns - 8)), and the n latest entries are
\* rendered in time order.
C5_WithinTerminal ==
    frames > 0 =>
        /\ frame.n <= frame.size.columns
        /\ frame.n = IMin(Len(cpu_hist), WindowWidth(frame.size.columns))
        /\ MostRecent(frame)

\* C5 amended: n never exceeds max(30, columns - 8), hence never exceeds the
\* terminal's columns when there are at least 30 of them;
\* n = min(history length, max(30, columns - 8)), and the n latest entries are
\* rendered in time order.
C5_WithinCanvas ==
    frames > 0 =>
        /\ frame.n <= WindowWidth(frame.size.columns)
        /\ frame.size.columns >= 30 => frame.n <= frame.size.columns
        /\ frame.n = IMin(Len(cpu_hist), WindowWidth(frame.size.columns))
        /\ MostRecent(frame)

\* a frame that shows only part of the history, on more columns than the
\* terminal has
C5_Witness ==
    /\ frames > 0
    /\ frame.n < Len(cpu_hist)
    /\ frame.n > frame.size.columns
    /\ frame.cpu_view[1] # cpu_hist[1]

\* the sample the screen shows is the last one read
ShownIsLatest ==
    /\ shown # NothingShown
    /\ mode = "graph" => frames = reads

\* C6: an absent metric is shown as "N/A", never as a number, on the once
\* line, the live line and the legend of a graph frame.
C6_AbsentShownAsNA ==
    ShownIsLatest =>
        /\ IsNone(cpu) => shown.parts[1] = "CPU: N/A"
        /\ IsNone(mem) => shown.parts[2] = "Memory: N/A"

\* C7: in graph mode with a limit N > 0 and no interrupt, every sample is
\* followed by its frame before the next one, and the loop ends only after N
\* samples and N frames, with the message "Done."; with N = 0 it does not end.
C7_ExactlyNSamples ==
    (mode = "graph" /\ pc # "stopped") =>
        /\ frames <= reads /\ reads <= frames + 1
        /\ pc = "read" => frames = reads
        /\ samples > 0 =>
              /\ reads <= samples
              /\ pc \notin {"read", "draw"} =>
                    /\ reads = samples
                    /\ frames = samples
                    /\ printed = <<"Done.">>
        /\ samples = 0 => pc \in {"read", "draw"}

\* C8: in a rendered frame each column holds one "@" at the common row when
\* the rows of cpu and mem coincide, else one "#" at the cpu row and one "*"
\* at the mem row; every other cell is blank and every write is inside the
\* grid.
C8_Columns ==
    frame # NoFrame =>
        LET h == frame.height
            n == frame.n
            g == frame.canvas.grid
        IN  /\ frame.canvas.err = ""
            /\ DOMAIN g = 0..(h - 1)
            /\ \A i \in 1..Len(frame.writes) :
                  /\ frame.writes[i].r \in 0..(h - 1)
                  /\ frame.writes[i].x \in 0..(n - 1)
            /\ \A x \in 0..(n - 1) :
                  LET rc    == row_for(frame.cpu_view[x + 1], h)
                      rm    == row_for(frame.mem_view[x + 1], h)
                      marks == {r \in 0..(h - 1) : g[r][x] # " "}
                  IN  IF rc = rm
                      THEN marks = {rc} /\ g[rc][x] = "@"
                      ELSE marks = {rc, rm} /\ g[rc][x] = "#" /\ g[rm][x] = "*"

\* a frame of three columns with an overlap column and a two-marker column
C8_Witness ==
    /\ frame # NoFrame
    /\ frame.n >= 3
    /\ \E x \in 0..(frame.n - 1) : \E r \in 0..(frame.height - 1) :
          frame.canvas.grid[r][x] = "@"
    /\ \E x \in 0..(frame.n - 1) : \E r \in 0..(frame.height - 1) :
          frame.canvas.grid[r][x] = "#"

\* the row the cpu marker of column x was written to
CpuRow(f, x) ==
    f.writes[CHOOSE i \in 1..Len(f.writes) :
                f.writes[i].x = x /\ f.writes[i].ch \in {"#", "@"}].r

\* C9: for every height 10..24 and every value in [0, 100] the row of the
\* value is in 0..height-1, it is height-1 minus the integer nearest to
\* value/100 * (height-1), row(0) = height-1 and row(100) = 0.
C9_RowRange ==
    frames > 0 =>
        LET h == frame.height
        IN  /\ h \in 10..24
            /\ \A x \in 0..(frame.n - 1) :
                  LET v   == frame.cpu_view[x + 1]
                      row == CpuRow(frame, x)
                      r   == (h - 1) - row
                  IN  /\ row \in 0..(h - 1)
                      /\ 2 * Abs(100 * v.d * r - v.n * (h - 1)) <= 100 * v.d
                      /\ v.n = 0 => row = h - 1
                      /\ v = Float(100, 1) => row = 0

\* a frame of the greatest height that puts the value 100 in its top row
C9_Witness ==
    /\ frames > 0
    /\ frame.height = 24
    /\ frame.cpu_view[1] = Float(100, 1)
    /\ CpuRow(frame, 0) = 0
    /\ frame.mem_view[1] = Float(0, 1)

\* the labels of a frame, top to bottom
RECURSIVE LabelsFrom(_, _)
LabelsFrom(f, row) ==
    IF row >= f.height THEN <<>>
    ELSE (IF f.labels[row] = "   " THEN <<>> ELSE <<f.labels[row]>>)
         \o LabelsFrom(f, row + 1)

\* C10: every frame labels exactly five rows, top to bottom 100, 75, 50, 25
\* and 0, and its bottom row is labelled.
C10_TickLabels ==
    frames > 0 =>
        /\ LabelsFrom(frame, 0) = <<"100", " 75", " 50", " 25", "  0">>
        /\ frame.labels[frame.height - 1] # "   "

=============================================================================
